---- MODULE Spec2Model ----
(***************************************************************************)
(* Rental property management app (src/rental_management_app.py).          *)
(*                                                                         *)
(* The store (Firestore) holds three collections; every browser session    *)
(* keeps its own st.session_state: the authenticated flag, the data_loaded *)
(* flag, the cached tenants / payments / expenses lists and the id of the  *)
(* tenant being edited.  Each handler of the script is one action.         *)
(*                                                                         *)
(* Conventions of the model                                                *)
(*  - a stored date string 'YYYY-MM-DD' is the tuple <<y, m, d>> of its    *)
(*    three zero-padded fields; a datetime.date is a record                *)
(*    [year, month, day]; a '%Y-%m' string is the tuple <<y, m>>, and      *)
(*    string comparison is the lexicographic comparison of the fields;     *)
(*  - amounts are whole currency units (the forms use format "%.2f");      *)
(*    floating point rounding is not modelled;                             *)
(*  - document ids are positive integers handed out by the store.          *)
(***************************************************************************)
EXTENDS Integers, Sequences, FiniteSets, TLC

VARIABLES
    db_tenants,       \* store collection 'tenants'  : set of records
    db_payments,      \* store collection 'payments' : set of records
    db_expenses,      \* store collection 'expenses' : set of records
    next_id,          \* next document id the store hands out, per collection
    authenticated,    \* st.session_state.authenticated, per session
    data_loaded,      \* 'data_loaded' in st.session_state, per session
    tenants,          \* st.session_state.tenants  (a list), per session
    payments,         \* st.session_state.payments (a list), per session
    expenses,         \* st.session_state.expenses (a list), per session
    edit_tenant_id,   \* st.session_state.edit_tenant_id (0: not set)
    store_reads,      \* how often the session has streamed the collections
    last,             \* the handler that ran last and how it ended
    view              \* what the last render computed for display

store == <<db_tenants, db_payments, db_expenses, next_id>>
cache == <<tenants, payments, expenses>>
vars == <<db_tenants, db_payments, db_expenses, next_id, authenticated,
          data_loaded, tenants, payments, expenses, edit_tenant_id,
          store_reads, last, view>>

Sessions == {"s1", "s2"}

-----------------------------------------------------------------------------
(* Bounds of the model                                                     *)

\* longest tenants list drawn as input of the pure computations
MaxInputTenants == 2
\* longest payments list drawn as input of the pure computations
MaxInputPayments == 2
\* longest expenses list drawn as input of the dashboard
MaxInputExpenses == 2
\* documents the store creates in a run, over the three collections
MaxCreated == 1
\* cap of the store_reads counters
MaxReads == 2

-----------------------------------------------------------------------------
(* Generic helpers                                                         *)

Min(a, b) == IF a <= b THEN a ELSE b
Max(a, b) == IF a >= b THEN a ELSE b

SeqsUpTo(S, n) == UNION {[1..k -> S] : k \in 0..n}

Range(seq) == {seq[i] : i \in 1..Len(seq)}

\* sum(x['amount'] for x in seq), accumulated left to right
RECURSIVE SumAmounts(_)
SumAmounts(seq) ==
    IF seq = <<>> THEN 0 ELSE Head(seq).amount + SumAmounts(Tail(seq))

-----------------------------------------------------------------------------
(* Dates                                                                   *)

IsLeap(y) == (y % 4 = 0 /\ y % 100 # 0) \/ y % 400 = 0

DaysInMonth(y, m) ==
    IF m = 2 THEN (IF IsLeap(y) THEN 29 ELSE 28)
    ELSE IF m \in {4, 6, 9, 11} THEN 30 ELSE 31

\* datetime.strptime(s, '%Y-%m-%d').date()
strptime(s) == [year |-> s[1], month |-> s[2], day |-> s[3]]

\* d.strftime('%Y-%m-%d')
strftime_Ymd(d) == <<d.year, d.month, d.day>>

\* d.strftime('%Y-%m')
strftime_Ym(d) == <<d.year, d.month>>

\* a <= b on strings of equal layout: field by field, left to right
RECURSIVE StrLeq(_, _)
StrLeq(a, b) ==
    IF a = <<>> \/ b = <<>> THEN a = <<>>
    ELSE IF Head(a) # Head(b) THEN Head(a) < Head(b)
    ELSE StrLeq(Tail(a), Tail(b))

\* d + relativedelta(months=n): the month moves, the day is clipped to the
\* length of the month reached
relativedelta_months(d, n) ==
    LET total == d.year * 12 + (d.month - 1) + n
        y == total \div 12
        m == (total % 12) + 1
    IN [year |-> y, month |-> m, day |-> Min(d.day, DaysInMonth(y, m))]

-----------------------------------------------------------------------------
(* calculate_balance                                                       *)

None == [id |-> 0]

\* a lookup that falls back to the first tenant of the list
get_tenant_or_first(tenant_list, tenant_id) ==
    IF \E i \in 1..Len(tenant_list) : tenant_list[i].id = tenant_id
    THEN tenant_list[CHOOSE i \in 1..Len(tenant_list) :
                        tenant_list[i].id = tenant_id]
    ELSE IF tenant_list = <<>> THEN None ELSE tenant_list[1]

\* get_tenant_by_id: the first tenant of the list with that id, or None
RECURSIVE get_tenant_by_id(_, _)
get_tenant_by_id(tenant_list, tenant_id) ==
    IF tenant_list = <<>> THEN None
    ELSE IF Head(tenant_list).id = tenant_id THEN Head(tenant_list)
    ELSE get_tenant_by_id(Tail(tenant_list), tenant_id)

\* a loop that runs through the report month instead of stopping before it
RECURSIVE rent_charged_loop_inclusive(_, _, _, _)
rent_charged_loop_inclusive(current_month_iter, previous_month, rent, total) ==
    IF StrLeq(strftime_Ym(current_month_iter),
              strftime_Ym(relativedelta_months(previous_month, 1)))
    THEN rent_charged_loop_inclusive(
             relativedelta_months(current_month_iter, 1),
             previous_month, rent, total + rent)
    ELSE total

\* the while loop of calculate_balance: one rent per month from the lease
\* start while its '%Y-%m' is <= that of the previous month
RECURSIVE rent_charged_loop(_, _, _, _)
rent_charged_loop(current_month_iter, previous_month, rent, total) ==
    IF StrLeq(strftime_Ym(current_month_iter), strftime_Ym(previous_month))
    THEN rent_charged_loop(relativedelta_months(current_month_iter, 1),
                           previous_month, rent, total + rent)
    ELSE total

\* a 'paid before' filter that forgets the tenant
PaidBeforeFilterAnyTenant(p, tenant_id, previous_month) ==
    StrLeq(strftime_Ym(strptime(p.date)), strftime_Ym(previous_month))

\* the payment filter of the 'paid before' loop
PaidBeforeFilter(p, tenant_id, previous_month) ==
    /\ p.tenant_id = tenant_id
    /\ StrLeq(strftime_Ym(strptime(p.date)), strftime_Ym(previous_month))

\* the payment filter of paid_this_month
PaidThisMonthFilter(p, tenant_id, report_month) ==
    /\ p.tenant_id = tenant_id
    /\ strftime_Ym(strptime(p.date)) = strftime_Ym(report_month)

\* a balance forwarded that is clamped at zero
BalanceForwardedClamped(total_rent_charged_before, total_paid_before) ==
    Max(0, total_rent_charged_before - total_paid_before)

\* balance_forwarded = total_rent_charged_before - total_paid_before
BalanceForwarded(total_rent_charged_before, total_paid_before) ==
    total_rent_charged_before - total_paid_before

\* a computation without the early return: a tenant that is not found
\* counts as one with no rent, and the payments carrying the id are summed
calculate_balance_unguarded(tenant_list, payment_list, tenant_id, report_month) ==
    LET tenant == get_tenant_by_id(tenant_list, tenant_id)
        rent_due == IF tenant = None THEN 0 ELSE tenant.rent
        previous_month == relativedelta_months(report_month, -1)
        total_rent_charged_before ==
            IF tenant = None THEN 0
            ELSE rent_charged_loop(strptime(tenant.start_date),
                                   previous_month, tenant.rent, 0)
        BeforeP(p) == PaidBeforeFilter(p, tenant_id, previous_month)
        total_paid_before == SumAmounts(SelectSeq(payment_list, BeforeP))
        balance_forwarded ==
            BalanceForwarded(total_rent_charged_before, total_paid_before)
        ThisP(p) == PaidThisMonthFilter(p, tenant_id, report_month)
        paid_this_month == SumAmounts(SelectSeq(payment_list, ThisP))
    IN <<rent_due, balance_forwarded, rent_due + balance_forwarded,
         paid_this_month, rent_due + balance_forwarded - paid_this_month>>

\* returns <<rent_due, balance_forwarded, total_due, paid_this_month,
\*           new_balance>>
calculate_balance(tenant_list, payment_list, tenant_id, report_month) ==
    LET tenant == get_tenant_by_id(tenant_list, tenant_id)
    IN IF tenant = None THEN <<0, 0, 0, 0, 0>>
       ELSE
       LET rent_due == tenant.rent
           previous_month == relativedelta_months(report_month, -1)
           start_date == strptime(tenant.start_date)
           total_rent_charged_before ==
               rent_charged_loop(start_date, previous_month, tenant.rent, 0)
           BeforeP(p) == PaidBeforeFilter(p, tenant_id, previous_month)
           total_paid_before == SumAmounts(SelectSeq(payment_list, BeforeP))
           balance_forwarded ==
               BalanceForwarded(total_rent_charged_before, total_paid_before)
           ThisP(p) == PaidThisMonthFilter(p, tenant_id, report_month)
           paid_this_month == SumAmounts(SelectSeq(payment_list, ThisP))
           total_due == rent_due + balance_forwarded
           new_balance == total_due - paid_this_month
       IN <<rent_due, balance_forwarded, total_due, paid_this_month,
            new_balance>>

-----------------------------------------------------------------------------
(* Inputs of the pure computations                                         *)

InputRents == {1000, 1500}
InputStartDates == {<<2023, 11, 30>>, <<2024, 1, 1>>, <<2024, 1, 31>>}
InputPaymentDates == {<<2023, 10, 5>>, <<2024, 1, 15>>, <<2024, 2, 10>>}
InputAmounts == {1000, 2500}
ReportDates == { [year |-> 2023, month |-> 11, day |-> 15],
                 [year |-> 2024, month |-> 1,  day |-> 1],
                 [year |-> 2024, month |-> 2,  day |-> 29],
                 [year |-> 2024, month |-> 3,  day |-> 31] }

\* tenant lists: the first tenant's rent and lease start are drawn, the
\* tenants after it are fixed; ids are the positions
InputTenant(i, rent, start) ==
    [id |-> i, name |-> IF i = 1 THEN "Ann" ELSE "Bob",
     property |-> IF i = 1 THEN "U1" ELSE "U2",
     rent |-> rent, start_date |-> start, deposit |-> 0]

InputTenantLists ==
    {<<>>} \cup
    { [i \in 1..k |-> IF i = 1 THEN InputTenant(1, r, sd)
                       ELSE InputTenant(i, 1500, <<2023, 11, 30>>)] :
        k \in 1..MaxInputTenants, r \in InputRents, sd \in InputStartDates }

\* payment lists in every order; tenant ids 1 and 2, so a list may hold
\* payments of a tenant the tenants list lacks
InputPaymentValues ==
    [tenant_id : {1, 2}, date : InputPaymentDates, amount : InputAmounts]

InputPaymentLists ==
    { [i \in 1..Len(ps) |-> [id |-> i, tenant_id |-> ps[i].tenant_id,
                              date |-> ps[i].date, amount |-> ps[i].amount]] :
        ps \in SeqsUpTo(InputPaymentValues, MaxInputPayments) }

AsSet(seq) == Range(seq)

NoView == [kind |-> "none"]
NoLast == [op |-> "none", outcome |-> "none"]

\* a session that has logged in and loaded the lists tl, pl, el
InitLoaded(tl, pl, el) ==
    /\ db_tenants = AsSet(tl)
    /\ db_payments = AsSet(pl)
    /\ db_expenses = AsSet(el)
    /\ next_id = [tenants |-> Len(tl) + 1, payments |-> Len(pl) + 1,
                  expenses |-> Len(el) + 1]
    /\ authenticated = [s \in Sessions |-> s = "s1"]
    /\ data_loaded = [s \in Sessions |-> s = "s1"]
    /\ tenants = [s \in Sessions |-> IF s = "s1" THEN tl ELSE <<>>]
    /\ payments = [s \in Sessions |-> IF s = "s1" THEN pl ELSE <<>>]
    /\ expenses = [s \in Sessions |-> IF s = "s1" THEN el ELSE <<>>]
    /\ edit_tenant_id = [s \in Sessions |-> 0]
    /\ store_reads = [s \in Sessions |-> IF s = "s1" THEN 1 ELSE 0]
    /\ last = NoLast
    /\ view = NoView

InitBalance ==
    \E tl \in InputTenantLists, pl \in InputPaymentLists :
        InitLoaded(tl, pl, <<>>)

\* calculate_balance(tenant_id, report_month) applied to the session's lists
CalculateBalance(s, tenant_id, report_month) ==
    /\ authenticated[s] /\ data_loaded[s]
    /\ view' = [kind |-> "balance", tenant_id |-> tenant_id,
                report_month |-> report_month,
                result |-> calculate_balance(tenants[s], payments[s],
                                             tenant_id, report_month)]
    /\ UNCHANGED <<store, authenticated, data_loaded, cache, edit_tenant_id,
                   store_reads, last>>

NextBalance ==
    \E s \in Sessions, tenant_id \in 1..(MaxInputTenants + 1),
       report_month \in ReportDates :
        CalculateBalance(s, tenant_id, report_month)

SpecBalance == InitBalance /\ [][NextBalance]_vars

-----------------------------------------------------------------------------
(* show_dashboard                                                          *)

\* a <= b on datetime.date values
DateLeq(a, b) ==
    \/ a.year < b.year
    \/ a.year = b.year /\ a.month < b.month
    \/ a.year = b.year /\ a.month = b.month /\ a.day <= b.day

\* df[(df['date'] >= start_date) & (df['date'] <= end_date)]
FilterByRange(list, start_date, end_date) ==
    LET InRange(x) == /\ DateLeq(start_date, strptime(x.date))
                      /\ DateLeq(strptime(x.date), end_date)
    IN SelectSeq(list, InRange)

\* pd.to_datetime(x['date']).dt.to_period('M').astype(str)
MonthLabel(x) == strftime_Ym(strptime(x.date))

\* the elements of a set of 'YYYY-MM' labels in ascending order
RECURSIVE SortedLabels(_)
SortedLabels(S) ==
    IF S = {} THEN <<>>
    ELSE LET least == CHOOSE a \in S : \A b \in S : StrLeq(a, b)
         IN <<least>> \o SortedLabels(S \ {least})

\* filtered.groupby('Month').agg(sum of 'amount').reset_index(): one row per
\* label, in ascending order of the labels
GroupByMonth(filtered) ==
    LET labels == SortedLabels({MonthLabel(filtered[i]) :
                                    i \in 1..Len(filtered)})
        OfMonth(k) == LET Is(x) == MonthLabel(x) = k
                      IN SelectSeq(filtered, Is)
    IN [i \in 1..Len(labels) |->
           [Month |-> labels[i], amount |-> SumAmounts(OfMonth(labels[i]))]]

\* a cell of a merged frame: a number, or NaN
NaN == [nan |-> TRUE]
Num(n) == [nan |-> FALSE, v |-> n]

\* column.fillna(0)
fillna(cell) == IF cell.nan THEN 0 ELSE cell.v

\* the cell of the row of `summary` with that label, NaN if there is none
Lookup(summary, label) ==
    IF \E i \in 1..Len(summary) : summary[i].Month = label
    THEN Num(summary[CHOOSE i \in 1..Len(summary) :
                         summary[i].Month = label].amount)
    ELSE NaN

\* pd.merge(income_summary, expense_summary, on='Month', how='outer'): the
\* rows of the left frame in their order, then the rows only the right frame
\* has (pandas before 2.2; from 2.2 on the keys come out sorted, which the
\* sort_values that follows makes the same)
MergeOuter(income_summary, expense_summary) ==
    LET left == [i \in 1..Len(income_summary) |->
                    [Month |-> income_summary[i].Month,
                     Income |-> Num(income_summary[i].amount),
                     Expenses |-> Lookup(expense_summary,
                                         income_summary[i].Month)]]
        RightOnly(r) == Lookup(income_summary, r.Month) = NaN
        only == SelectSeq(expense_summary, RightOnly)
        right == [i \in 1..Len(only) |->
                    [Month |-> only[i].Month, Income |-> NaN,
                     Expenses |-> Num(only[i].amount)]]
    IN left \o right

\* rows left in the order the merge produced
KeepOrder(rows) == rows

\* monthly_summary.sort_values('Month')
SortByMonth(rows) ==
    SortSeq(rows, LAMBDA a, b : a.Month # b.Month /\ StrLeq(a.Month, b.Month))

\* a total over the whole list, whatever the dates
TotalOfAll(list, start_date, end_date) == SumAmounts(list)

\* the sum of a range-filtered frame's 'amount' column
RangeTotal(list, start_date, end_date) ==
    SumAmounts(FilterByRange(list, start_date, end_date))

\* the rows of monthly_summary (empty when both summaries are empty)
monthly_summary(payment_list, expense_list, start_date, end_date) ==
    LET filtered_payments == FilterByRange(payment_list, start_date, end_date)
        filtered_expenses == FilterByRange(expense_list, start_date, end_date)
        income_summary == GroupByMonth(filtered_payments)
        expense_summary == GroupByMonth(filtered_expenses)
    IN IF income_summary # <<>> \/ expense_summary # <<>>
       THEN LET merged == MergeOuter(income_summary, expense_summary)
                filled == [i \in 1..Len(merged) |->
                              [Month |-> merged[i].Month,
                               Income |-> fillna(merged[i].Income),
                               Expenses |-> fillna(merged[i].Expenses),
                               Net_Income |-> fillna(merged[i].Income)
                                              - fillna(merged[i].Expenses)]]
            IN SortByMonth(filled)
       ELSE <<>>

\* InputExpenseDates holds a month no payment falls in and shares a month
\* with the payments
InputExpenseDates == {<<2023, 12, 31>>, <<2024, 1, 15>>, <<2024, 2, 1>>}
InputExpenseAmounts == {300, 1000}

InputExpenseLists ==
    { [i \in 1..Len(es) |-> [id |-> i, description |-> "Repair",
                              amount |-> es[i].amount, date |-> es[i].date]] :
        es \in SeqsUpTo([date : InputExpenseDates,
                         amount : InputExpenseAmounts], MaxInputExpenses) }

DashboardPaymentLists ==
    { pl \in InputPaymentLists : \A i \in 1..Len(pl) : pl[i].tenant_id = 1 }

\* date ranges: everything; bounded by two transaction dates; just inside
\* them; a month without transactions; an empty range
DateRanges ==
    { <<[year |-> 2023, month |-> 10, day |-> 1],
        [year |-> 2024, month |-> 2, day |-> 29]>>,
      <<[year |-> 2024, month |-> 1, day |-> 15],
        [year |-> 2024, month |-> 2, day |-> 10]>>,
      <<[year |-> 2024, month |-> 1, day |-> 16],
        [year |-> 2024, month |-> 2, day |-> 9]>>,
      <<[year |-> 2023, month |-> 11, day |-> 1],
        [year |-> 2023, month |-> 11, day |-> 30]>>,
      <<[year |-> 2024, month |-> 2, day |-> 10],
        [year |-> 2024, month |-> 1, day |-> 15]>> }

InitDashboard ==
    \E pl \in DashboardPaymentLists, el \in InputExpenseLists :
        InitLoaded(<<InputTenant(1, 1000, <<2023, 11, 30>>)>>, pl, el)

\* one render of the dashboard page for the selected date range
ShowDashboard(s, start_date, end_date) ==
    /\ authenticated[s] /\ data_loaded[s]
    /\ LET total_income == RangeTotal(payments[s], start_date, end_date)
           total_expenses == RangeTotal(expenses[s], start_date, end_date)
       IN view' = [kind |-> "dashboard",
                   start_date |-> start_date, end_date |-> end_date,
                   total_income |-> total_income,
                   total_expenses |-> total_expenses,
                   net_income |-> total_income - total_expenses,
                   monthly_summary |->
                       monthly_summary(payments[s], expenses[s],
                                       start_date, end_date)]
    /\ UNCHANGED <<store, authenticated, data_loaded, cache, edit_tenant_id,
                   store_reads, last>>

NextDashboard ==
    \E s \in Sessions, range \in DateRanges :
        ShowDashboard(s, range[1], range[2])

SpecDashboard == InitDashboard /\ [][NextDashboard]_vars

-----------------------------------------------------------------------------
(* The sessions and the store                                              *)

\* st.secrets["admin_credentials"]
admin_user == "admin"
admin_pass == "secret"

Usernames == {"admin", "guest"}
Passwords == {"secret", "wrong"}

\* what the tenant forms can carry: two complete forms that differ in every
\* field, and one form for each way of being malformed
FormAnn == [name |-> "Ann", property |-> "U1", rent |-> 1000, deposit |-> 0,
            start_date |-> [year |-> 2024, month |-> 1, day |-> 1]]
FormBob == [name |-> "Bob", property |-> "U2", rent |-> 1500, deposit |-> 500,
            start_date |-> [year |-> 2023, month |-> 11, day |-> 30]]
TenantForms ==
    { FormAnn, FormBob,
      [FormAnn EXCEPT !.name = ""],
      [FormBob EXCEPT !.property = ""],
      [FormAnn EXCEPT !.rent = 0] }

\* what the edit form is submitted with
EditForms == { FormAnn, FormBob, [FormAnn EXCEPT !.rent = 0] }

PaymentFormDates == { [year |-> 2024, month |-> 1, day |-> 15] }
PaymentFormAmounts == {0, 1000}

ExpenseFormDescriptions == {"", "Repair"}
ExpenseFormAmounts == {0, 300}
ExpenseFormDates == { [year |-> 2024, month |-> 1, day |-> 15] }

\* the documents of a collection as stream() yields them: by document id
RECURSIVE SortedById(_)
SortedById(docs) ==
    IF docs = {} THEN <<>>
    ELSE LET first == CHOOSE d \in docs : \A e \in docs : d.id <= e.id
         IN <<first>> \o SortedById(docs \ {first})

Ids(list) == {list[i].id : i \in 1..Len(list)}

Last(s, op, outcome, input) ==
    [session |-> s, op |-> op, outcome |-> outcome, input |-> input]

\* the stores a run can start from: an empty one, and one that holds two
\* tenants with a payment each and an expense
SeedTenants ==
    { [id |-> 1, name |-> "Ann", property |-> "U1", rent |-> 1000,
       start_date |-> <<2024, 1, 1>>, deposit |-> 0],
      [id |-> 2, name |-> "Bob", property |-> "U2", rent |-> 1500,
       start_date |-> <<2023, 11, 30>>, deposit |-> 500] }
SeedPayments ==
    { [id |-> 1, tenant_id |-> 1, date |-> <<2024, 1, 15>>, amount |-> 1000],
      [id |-> 2, tenant_id |-> 2, date |-> <<2024, 1, 15>>, amount |-> 2500] }
SeedExpenses ==
    { [id |-> 1, description |-> "Repair", amount |-> 300,
       date |-> <<2024, 1, 15>>] }

\* the ids a collection can hold
DocIds == 1..(Cardinality(SeedPayments) + MaxCreated)

\* the documents the store has created since the start
DocsCreated ==
    (next_id.tenants + next_id.payments + next_id.expenses)
    - (Cardinality({d \in SeedTenants : d.id < next_id.tenants})
       + Cardinality({d \in SeedPayments : d.id < next_id.payments})
       + Cardinality({d \in SeedExpenses : d.id < next_id.expenses}) + 3)

Init ==
    /\ \/ db_tenants = {} /\ db_payments = {} /\ db_expenses = {}
       \/ /\ db_tenants = SeedTenants
          /\ db_payments = SeedPayments
          /\ db_expenses = SeedExpenses
    /\ next_id = [tenants |-> Cardinality(db_tenants) + 1,
                  payments |-> Cardinality(db_payments) + 1,
                  expenses |-> Cardinality(db_expenses) + 1]
    /\ authenticated = [s \in Sessions |-> FALSE]
    /\ data_loaded = [s \in Sessions |-> FALSE]
    /\ tenants = [s \in Sessions |-> <<>>]
    /\ payments = [s \in Sessions |-> <<>>]
    /\ expenses = [s \in Sessions |-> <<>>]
    /\ edit_tenant_id = [s \in Sessions |-> 0]
    /\ store_reads = [s \in Sessions |-> 0]
    /\ last = NoLast
    /\ view = NoView

\* a check of the username alone
CredentialsMatchUserOnly(username, password) == username = admin_user

\* username == admin_user and password == admin_pass
CredentialsMatch(username, password) ==
    username = admin_user /\ password = admin_pass

\* show_login_form: the Login button
Login(s, username, password) ==
    /\ ~authenticated[s]
    /\ IF CredentialsMatch(username, password)
       THEN /\ authenticated' = [authenticated EXCEPT ![s] = TRUE]
            /\ last' = Last(s, "login", "ok", <<username, password>>)
       ELSE /\ UNCHANGED authenticated
            /\ last' = Last(s, "login", "rejected", <<username, password>>)
    /\ UNCHANGED <<store, data_loaded, cache, edit_tenant_id, store_reads,
                   view>>

\* show_main_app: the Logout button of the sidebar
Logout(s) ==
    /\ authenticated[s] /\ data_loaded[s]
    /\ authenticated' = [authenticated EXCEPT ![s] = FALSE]
    /\ last' = Last(s, "logout", "ok", <<>>)
    /\ UNCHANGED <<store, data_loaded, cache, edit_tenant_id, store_reads,
                   view>>

\* a loader that reads the store on every run of the script
ShouldLoadAlways(s) == TRUE

\* whether load_data_from_firestore reads the store
ShouldLoad(s) == ~data_loaded[s]

\* load_data_from_firestore, on a run of the script in an authenticated
\* session: the three collections are streamed into the session state once
LoadData(s) ==
    /\ authenticated[s]
    /\ ShouldLoad(s)
    /\ store_reads[s] < MaxReads
    /\ tenants' = [tenants EXCEPT ![s] = SortedById(db_tenants)]
    /\ payments' = [payments EXCEPT ![s] = SortedById(db_payments)]
    /\ expenses' = [expenses EXCEPT ![s] = SortedById(db_expenses)]
    /\ data_loaded' = [data_loaded EXCEPT ![s] = TRUE]
    /\ store_reads' = [store_reads EXCEPT ![s] = @ + 1]
    /\ last' = Last(s, "load", "ok", <<>>)
    /\ UNCHANGED <<store, authenticated, edit_tenant_id, view>>

\* a page of the main app is on screen
PageShown(s) == authenticated[s] /\ data_loaded[s]

\* the check of the Add Tenant form: name and property_unit and rent > 0
ValidTenantForm(form) ==
    form.name # "" /\ form.property # "" /\ form.rent > 0

\* the document a tenant form is written as
TenantData(form) ==
    [name |-> form.name, property |-> form.property, rent |-> form.rent,
     start_date |-> strftime_Ymd(form.start_date), deposit |-> form.deposit]

WithId(data, id) == [f \in DOMAIN data \cup {"id"} |->
                        IF f = "id" THEN id ELSE data[f]]

\* manage_tenants: the Add Tenant form; ok is whether the store call succeeds
AddTenant(s, form, ok) ==
    /\ PageShown(s)
    /\ form.rent >= 0
    /\ DocsCreated < MaxCreated
    /\ IF ValidTenantForm(form)
       THEN IF ok
            THEN LET doc == WithId(TenantData(form), next_id.tenants)
                 IN /\ db_tenants' = db_tenants \cup {doc}
                    /\ next_id' = [next_id EXCEPT !.tenants = @ + 1]
                    /\ tenants' = [tenants EXCEPT ![s] = Append(@, doc)]
                    /\ last' = Last(s, "add_tenant", "ok", <<>>)
            ELSE /\ UNCHANGED <<db_tenants, next_id, tenants>>
                 /\ last' = Last(s, "add_tenant", "exception", <<>>)
       ELSE /\ UNCHANGED <<db_tenants, next_id, tenants>>
            /\ last' = Last(s, "add_tenant", "rejected", <<>>)
    /\ UNCHANGED <<db_payments, db_expenses, authenticated, data_loaded,
                   payments, expenses, edit_tenant_id, store_reads, view>>

\* manage_tenants: the Edit button of a listed tenant
EditTenant(s, tenant_id) ==
    /\ PageShown(s)
    /\ tenant_id \in Ids(tenants[s])
    /\ edit_tenant_id' = [edit_tenant_id EXCEPT ![s] = tenant_id]
    /\ last' = Last(s, "edit_tenant", "ok", <<>>)
    /\ UNCHANGED <<store, authenticated, data_loaded, cache, store_reads,
                   view>>

\* the tenant list with the fields of tenant tenant_id replaced by data
UpdateTenant(list, tenant_id, data) ==
    [i \in 1..Len(list) |->
        IF list[i].id = tenant_id THEN WithId(data, tenant_id) ELSE list[i]]

\* an update that writes the name and the property only
StoreUpdateNameOnly(docs, id, data) ==
    { IF d.id = id
      THEN [d EXCEPT !.name = data.name, !.property = data.property]
      ELSE d : d \in docs }

\* db.collection('tenants').document(id).update(data): every field of data
\* replaces the stored one, whatever the document held
StoreUpdate(docs, id, data) ==
    {d \in docs : d.id # id} \cup {WithId(data, id)}

\* manage_tenants: Save Changes of the edit form, which checks nothing of
\* the form before it writes; ok is whether the store call succeeds
\* (update() of a document the store lacks raises NotFound)
SaveChanges(s, form, ok) ==
    /\ PageShown(s)
    /\ edit_tenant_id[s] \in Ids(tenants[s])
    /\ LET id == edit_tenant_id[s]
           updated_data == TenantData(form)
       IN IF ok /\ \E d \in db_tenants : d.id = id
          THEN /\ db_tenants' = StoreUpdate(db_tenants, id, updated_data)
               /\ tenants' = [tenants EXCEPT
                                 ![s] = UpdateTenant(@, id, updated_data)]
               /\ edit_tenant_id' = [edit_tenant_id EXCEPT ![s] = 0]
               /\ last' = Last(s, "save_changes", "ok", <<>>)
          ELSE /\ UNCHANGED <<db_tenants, tenants, edit_tenant_id>>
               /\ last' = Last(s, "save_changes", "exception", <<>>)
    /\ UNCHANGED <<db_payments, db_expenses, next_id, authenticated,
                   data_loaded, payments, expenses, store_reads, view>>

\* manage_tenants: Cancel of the edit form
CancelEdit(s) ==
    /\ PageShown(s)
    /\ edit_tenant_id[s] \in Ids(tenants[s])
    /\ edit_tenant_id' = [edit_tenant_id EXCEPT ![s] = 0]
    /\ last' = Last(s, "cancel_edit", "ok", <<>>)
    /\ UNCHANGED <<store, authenticated, data_loaded, cache, store_reads,
                   view>>

\* a cascade whose failure takes every selected payment with it
PrefixAll(list, n) == list

\* the first n elements of a list
Prefix(list, n) == [i \in 1..Min(n, Len(list)) |-> list[i]]

\* a tenant delete that leaves the cached payments alone
PaymentsKeptAll(list, tenant_id) == list

\* the cached payments that stay when tenant tenant_id is deleted
PaymentsKept(list, tenant_id) ==
    LET Other(p) == p.tenant_id # tenant_id IN SelectSeq(list, Other)

\* the store's payments the cascade of a tenant delete selects
PaymentsToDelete(tenant_id) ==
    SortedById({p \in db_payments : p.tenant_id = tenant_id})

\* a cache that is patched as soon as the tenant document is gone
CachePatchedAfterTenantDelete(fail) == fail # 1

\* the lines that patch the cache follow every store call of the handler:
\* they run when none of the calls raised
CachePatched(fail) == fail = 0

\* manage_tenants: the Delete button of a listed tenant.  Its store calls
\* are: 1 the delete of the tenant document, 2 the query of its payments,
\* 3.. the delete of each payment; fail is the call that raises (0: none)
DeleteTenant(s, tenant_id, fail) ==
    /\ PageShown(s)
    /\ tenant_id \in Ids(tenants[s])
    /\ LET payments_to_delete == PaymentsToDelete(tenant_id)
       IN /\ fail <= 2 + Len(payments_to_delete)
          /\ db_tenants' = IF fail = 1 THEN db_tenants
                           ELSE {d \in db_tenants : d.id # tenant_id}
          /\ db_payments' =
               IF fail = 0 THEN db_payments \ Range(payments_to_delete)
               ELSE db_payments \ Range(Prefix(payments_to_delete, fail - 3))
          /\ IF CachePatched(fail)
             THEN /\ tenants' = [tenants EXCEPT ![s] =
                       LET Other(t) == t.id # tenant_id
                       IN SelectSeq(@, Other)]
                  /\ payments' = [payments EXCEPT ![s] =
                                     PaymentsKept(@, tenant_id)]
             ELSE UNCHANGED <<tenants, payments>>
          /\ last' = Last(s, "delete_tenant",
                          IF fail = 0 THEN "ok" ELSE "exception", <<>>)
    /\ UNCHANGED <<db_expenses, next_id, authenticated, data_loaded, expenses,
                   edit_tenant_id, store_reads, view>>

\* manage_payments: the Record Payment form; tenant_id 0 is no selection;
\* the amount widget has min_value 0.01
RecordPayment(s, tenant_id, payment_date, amount, ok) ==
    /\ PageShown(s)
    /\ tenants[s] # <<>>
    /\ tenant_id \in Ids(tenants[s]) \cup {0}
    /\ amount > 0
    /\ DocsCreated < MaxCreated
    /\ IF tenant_id # 0
       THEN IF ok
            THEN LET doc == [id |-> next_id.payments, tenant_id |-> tenant_id,
                             date |-> strftime_Ymd(payment_date),
                             amount |-> amount]
                 IN /\ db_payments' = db_payments \cup {doc}
                    /\ next_id' = [next_id EXCEPT !.payments = @ + 1]
                    /\ payments' = [payments EXCEPT ![s] = Append(@, doc)]
                    /\ last' = Last(s, "record_payment", "ok", <<>>)
            ELSE /\ UNCHANGED <<db_payments, next_id, payments>>
                 /\ last' = Last(s, "record_payment", "exception", <<>>)
       ELSE /\ UNCHANGED <<db_payments, next_id, payments>>
            /\ last' = Last(s, "record_payment", "rejected", <<>>)
    /\ UNCHANGED <<db_tenants, db_expenses, authenticated, data_loaded,
                   tenants, expenses, edit_tenant_id, store_reads, view>>

\* the check of the Add Expense form: description and amount > 0
ValidExpenseForm(description, amount) == description # "" /\ amount > 0

\* manage_expenses: the Add Expense form; the amount widget has min_value
\* 0.01
AddExpense(s, description, amount, expense_date, ok) ==
    /\ PageShown(s)
    /\ amount > 0
    /\ DocsCreated < MaxCreated
    /\ IF ValidExpenseForm(description, amount)
       THEN IF ok
            THEN LET doc == [id |-> next_id.expenses,
                             description |-> description, amount |-> amount,
                             date |-> strftime_Ymd(expense_date)]
                 IN /\ db_expenses' = db_expenses \cup {doc}
                    /\ next_id' = [next_id EXCEPT !.expenses = @ + 1]
                    /\ expenses' = [expenses EXCEPT ![s] = Append(@, doc)]
                    /\ last' = Last(s, "add_expense", "ok", <<>>)
            ELSE /\ UNCHANGED <<db_expenses, next_id, expenses>>
                 /\ last' = Last(s, "add_expense", "exception", <<>>)
       ELSE /\ UNCHANGED <<db_expenses, next_id, expenses>>
            /\ last' = Last(s, "add_expense", "rejected", <<>>)
    /\ UNCHANGED <<db_tenants, db_payments, authenticated, data_loaded,
                   tenants, payments, edit_tenant_id, store_reads, view>>

\* the cached expenses that stay when those with ids in expenses_to_delete go
ExpensesKept(list, expenses_to_delete) ==
    LET Stays(e) == e.id \notin expenses_to_delete IN SelectSeq(list, Stays)

\* manage_expenses: ticked Delete? boxes.  The documents are deleted one by
\* one in the order of the table (date descending); done are the ids whose
\* delete succeeded: all of them, or those before the call that raised
DeleteExpenses(s, expenses_to_delete, done) ==
    /\ PageShown(s)
    /\ expenses_to_delete # {}
    /\ expenses_to_delete \subseteq Ids(expenses[s])
    /\ done \subseteq expenses_to_delete
    /\ LET DateOf(id) == (CHOOSE e \in Range(expenses[s]) : e.id = id).date
       IN \A a \in done, b \in expenses_to_delete \ done :
             StrLeq(DateOf(b), DateOf(a))
    /\ db_expenses' = {e \in db_expenses : e.id \notin done}
    /\ IF done = expenses_to_delete
       THEN /\ expenses' = [expenses EXCEPT ![s] =
                               ExpensesKept(@, expenses_to_delete)]
            /\ last' = Last(s, "delete_expenses", "ok", <<>>)
       ELSE /\ UNCHANGED expenses
            /\ last' = Last(s, "delete_expenses", "exception", <<>>)
    /\ UNCHANGED <<db_tenants, db_payments, next_id, authenticated,
                   data_loaded, tenants, payments, edit_tenant_id,
                   store_reads, view>>

\* the steps of the sessions SS; Oks are the outcomes a store call may have
\* (TRUE: it succeeds) and Fails the store calls of a tenant delete that may
\* raise (0: none)
Step(SS, Oks, Fails) ==
    \E s \in SS :
        \/ \E u \in Usernames, p \in Passwords : Login(s, u, p)
        \/ Logout(s)
        \/ LoadData(s)
        \/ \E form \in TenantForms, ok \in Oks : AddTenant(s, form, ok)
        \/ \E id \in DocIds : EditTenant(s, id)
        \/ \E form \in EditForms, ok \in Oks : SaveChanges(s, form, ok)
        \/ CancelEdit(s)
        \/ \E id \in DocIds, fail \in Fails : DeleteTenant(s, id, fail)
        \/ \E id \in DocIds \cup {0}, d \in PaymentFormDates,
              a \in PaymentFormAmounts, ok \in Oks :
               RecordPayment(s, id, d, a, ok)
        \/ \E desc \in ExpenseFormDescriptions, a \in ExpenseFormAmounts,
              d \in ExpenseFormDates, ok \in Oks :
               AddExpense(s, desc, a, d, ok)
        \/ \E ids \in SUBSET DocIds :
              \E done \in (IF TRUE \in Oks /\ FALSE \notin Oks
                           THEN {ids} ELSE SUBSET ids) :
                 DeleteExpenses(s, ids, done)

\* one session; any store call of a write may fail
Next == Step({"s1"}, BOOLEAN, 0..(2 + Cardinality(SeedPayments) + MaxCreated))

Spec == Init /\ [][Next]_vars

\* one session and no failing store call
NextNoFail == Step({"s1"}, {TRUE}, {0})

SpecNoFail == Init /\ [][NextNoFail]_vars

\* two sessions that have logged in and loaded the seeded store
InitTwoSessions ==
    /\ db_tenants = SeedTenants
    /\ db_payments = SeedPayments
    /\ db_expenses = SeedExpenses
    /\ next_id = [tenants |-> Cardinality(SeedTenants) + 1,
                  payments |-> Cardinality(SeedPayments) + 1,
                  expenses |-> Cardinality(SeedExpenses) + 1]
    /\ authenticated = [s \in Sessions |-> TRUE]
    /\ data_loaded = [s \in Sessions |-> TRUE]
    /\ tenants = [s \in Sessions |-> SortedById(SeedTenants)]
    /\ payments = [s \in Sessions |-> SortedById(SeedPayments)]
    /\ expenses = [s \in Sessions |-> SortedById(SeedExpenses)]
    /\ edit_tenant_id = [s \in Sessions |-> 0]
    /\ store_reads = [s \in Sessions |-> 1]
    /\ last = NoLast
    /\ view = NoView

\* the edit form of the tenants page, in either session; no store call fails
NextTwoSessions ==
    \E s \in Sessions :
        \/ \E id \in DocIds : EditTenant(s, id)
        \/ \E form \in EditForms : SaveChanges(s, form, TRUE)
        \/ CancelEdit(s)

SpecTwoSessions == InitTwoSessions /\ [][NextTwoSessions]_vars

-----------------------------------------------------------------------------
(* manage_payments: the monthly report and the balance view                *)

\* sorted(items, key=...): a stable insertion sort of [key, val] records
RECURSIVE InsertByKey(_, _)
InsertByKey(sorted, x) ==
    IF sorted = <<>> THEN <<x>>
    ELSE IF StrLeq(Head(sorted).key, x.key)
         THEN <<Head(sorted)>> \o InsertByKey(Tail(sorted), x)
         ELSE <<x>> \o sorted

RECURSIVE StableSort(_)
StableSort(items) ==
    IF items = <<>> THEN <<>>
    ELSE InsertByKey(StableSort(SubSeq(items, 1, Len(items) - 1)),
                     items[Len(items)])

\* the code points of the names the model uses ('' sorts first)
NameKey(name) ==
    IF name = "" THEN <<>>
    ELSE IF name = "Ann" THEN <<65, 110, 110>> ELSE <<66, 111, 98>>

\* sorted(payments, key=lambda x: x['date'])
SortPaymentsByDate(list) ==
    LET sorted == StableSort([i \in 1..Len(list) |->
                                 [key |-> list[i].date, val |-> list[i]]])
    IN [i \in 1..Len(sorted) |-> sorted[i].val]

\* the keys of payments_by_tenant, in the order the dict received them
RECURSIVE FirstOccurrences(_, _)
FirstOccurrences(list, seen) ==
    IF list = <<>> THEN <<>>
    ELSE IF Head(list).tenant_id \in seen
         THEN FirstOccurrences(Tail(list), seen)
         ELSE <<Head(list).tenant_id>>
              \o FirstOccurrences(Tail(list), seen \cup {Head(list).tenant_id})

\* tenant_report_list: one entry per key whose tenant is found
RECURSIVE tenant_report_list(_, _, _)
tenant_report_list(keys, payments_in_month, tenant_list) ==
    IF keys = <<>> THEN <<>>
    ELSE LET tenant_id == Head(keys)
             tenant == get_tenant_by_id(tenant_list, tenant_id)
             Of(p) == p.tenant_id = tenant_id
             rest == tenant_report_list(Tail(keys), payments_in_month,
                                        tenant_list)
         IN IF tenant # None
            THEN <<[name |-> tenant.name, property |-> tenant.property,
                    payments |-> SortPaymentsByDate(
                                     SelectSeq(payments_in_month, Of))]>>
                 \o rest
            ELSE rest

\* the lines of "Tenants Who Paid This Month", sorted by name, each with its
\* Total Paid
ReportRows(tenant_list, payment_list, report_month) ==
    LET InMonth(p) == strftime_Ym(strptime(p.date)) = strftime_Ym(report_month)
        payments_in_month == SelectSeq(payment_list, InMonth)
        list == tenant_report_list(FirstOccurrences(payments_in_month, {}),
                                   payments_in_month, tenant_list)
        sorted == StableSort([i \in 1..Len(list) |->
                                 [key |-> NameKey(list[i].name),
                                  val |-> list[i]]])
    IN [i \in 1..Len(sorted) |->
           [name |-> sorted[i].val.name, property |-> sorted[i].val.property,
            payments |-> sorted[i].val.payments,
            total_paid |-> SumAmounts(sorted[i].val.payments)]]

\* manage_payments: the Monthly Payment Report for the selected month
MonthlyReport(s, report_month) ==
    /\ PageShown(s)
    /\ tenants[s] # <<>>
    /\ LET InMonth(p) ==
               strftime_Ym(strptime(p.date)) = strftime_Ym(report_month)
       IN view' = [kind |-> "report", report_month |-> report_month,
                   total_collected |->
                       SumAmounts(SelectSeq(payments[s], InMonth)),
                   rows |-> ReportRows(tenants[s], payments[s], report_month)]
    /\ UNCHANGED <<store, authenticated, data_loaded, cache, edit_tenant_id,
                   store_reads, last>>

\* the orders sort_values(by='date', ascending=False) may leave a list in:
\* dates descending, equal dates in any order
SortedByDateDescending(list) ==
    { h \in [1..Len(list) -> Range(list)] :
        /\ Range(h) = Range(list)
        /\ \A i \in 1..(Len(h) - 1) : StrLeq(h[i + 1].date, h[i].date) }

\* manage_payments: Tenant Balances & History for a tenant of the select box
ViewBalance(s, view_tenant_id, report_month_dt) ==
    /\ PageShown(s)
    /\ view_tenant_id \in Ids(tenants[s])
    /\ LET Of(p) == p.tenant_id = view_tenant_id
           tenant_payments == SelectSeq(payments[s], Of)
       IN \E history \in SortedByDateDescending(tenant_payments) :
            view' = [kind |-> "balance", tenant_id |-> view_tenant_id,
                     report_month |-> report_month_dt,
                     result |-> calculate_balance(tenants[s], payments[s],
                                    view_tenant_id, report_month_dt),
                     history |-> history]
    /\ UNCHANGED <<store, authenticated, data_loaded, cache, edit_tenant_id,
                   store_reads, last>>

NextReport ==
    \E s \in Sessions, report_month \in ReportDates :
        \/ MonthlyReport(s, report_month)
        \/ \E id \in 1..MaxInputTenants : ViewBalance(s, id, report_month)

SpecReport == InitBalance /\ [][NextReport]_vars

-----------------------------------------------------------------------------
(* Claims about calculate_balance                                          *)

\* calendar months are numbered year * 12 + month
MonthIndex(d) == d.year * 12 + d.month

\* the sum of the amounts of the payments at the positions I of pl
RECURSIVE SumAt(_, _)
SumAt(I, pl) ==
    IF I = {} THEN 0
    ELSE LET i == CHOOSE j \in I : TRUE
         IN pl[i].amount + SumAt(I \ {i}, pl)

\* the tenant's payments dated in a month strictly before month M
PositionsBefore(pl, tenant_id, M) ==
    { i \in 1..Len(pl) : /\ pl[i].tenant_id = tenant_id
                         /\ MonthIndex(strptime(pl[i].date)) < MonthIndex(M) }

\* the tenant's payments dated in month M
PositionsIn(pl, tenant_id, M) ==
    { i \in 1..Len(pl) : /\ pl[i].tenant_id = tenant_id
                         /\ MonthIndex(strptime(pl[i].date)) = MonthIndex(M) }

\* months from the lease start S up to and including M - 1; zero if S >= M
MonthsCharged(S, M) == Max(0, MonthIndex(M) - MonthIndex(S))

\* the tenant a balance view is about (None when the id matches no tenant)
ViewTenant == get_tenant_by_id(tenants["s1"], view.tenant_id)

BalanceShown == view.kind = "balance" /\ ViewTenant # None

ExpectedForwarded ==
    ViewTenant.rent
        * MonthsCharged(strptime(ViewTenant.start_date), view.report_month)
    - SumAt(PositionsBefore(payments["s1"], view.tenant_id, view.report_month),
            payments["s1"])

ExpectedPaidThisMonth ==
    SumAt(PositionsIn(payments["s1"], view.tenant_id, view.report_month),
          payments["s1"])

\* C1: for an existing tenant, balanceForwarded is rent x (months from the
\* lease start up to and including the month before the report month, zero
\* if the lease starts in or after the report month) minus the sum of that
\* tenant's payments dated in a month strictly before the report month;
\* other tenants' payments and payments in or after the report month do not
\* contribute.
C1_BalanceForwarded ==
    BalanceShown => view.result[2] = ExpectedForwarded

\* C1 witness: a balance of at least two charged months, with one payment that
\* counts and one payment (another tenant's, or a later one) that does not.
C1_Witness ==
    /\ BalanceShown
    /\ MonthsCharged(strptime(ViewTenant.start_date), view.report_month) >= 2
    /\ PositionsBefore(payments["s1"], view.tenant_id, view.report_month) # {}
    /\ \E i \in 1..Len(payments["s1"]) :
          i \notin PositionsBefore(payments["s1"], view.tenant_id,
                                   view.report_month)
    /\ view.result[2] = ExpectedForwarded

\* C2: for an existing tenant and any report month (also one before the
\* lease start), rentDue is the monthly rent, paidThisMonth the sum of the
\* tenant's payments of the report month, totalDue = rentDue +
\* balanceForwarded and endingBalance = totalDue - paidThisMonth; an overpaid
\* tenant's balanceForwarded and endingBalance are negative, not clamped.
C2_BalanceOutputs ==
    BalanceShown =>
        /\ view.result[1] = ViewTenant.rent
        /\ view.result[4] = ExpectedPaidThisMonth
        /\ view.result[3] = view.result[1] + view.result[2]
        /\ view.result[5] = view.result[3] - view.result[4]
        /\ (ExpectedForwarded < 0 => view.result[2] < 0)
        /\ (ViewTenant.rent + ExpectedForwarded - ExpectedPaidThisMonth < 0
              => view.result[5] < 0)

\* C2 witness: an overpaid tenant with a payment in the report month, shown
\* with a negative balance forwarded and a negative ending balance.
C2_Witness ==
    /\ BalanceShown
    /\ view.result[2] < 0
    /\ view.result[4] > 0
    /\ view.result[5] < 0

\* C3 as stated: when the report month is the lease-start month or earlier,
\* balanceForwarded is 0 whatever the payments are.
C3_Original ==
    (BalanceShown /\ MonthIndex(view.report_month)
                       <= MonthIndex(strptime(ViewTenant.start_date)))
        => view.result[2] = 0

\* C3 as amended: when the report month is the lease-start month or earlier,
\* no rent is charged before it, and balanceForwarded is minus the sum of the
\* tenant's payments dated in a month strictly before the report month: 0
\* when there is no such payment.
C3_NoRentBeforeLeaseStart ==
    (BalanceShown /\ MonthIndex(view.report_month)
                       <= MonthIndex(strptime(ViewTenant.start_date)))
        => /\ view.result[2] =
                0 - SumAt(PositionsBefore(payments["s1"], view.tenant_id,
                                          view.report_month), payments["s1"])
           /\ (PositionsBefore(payments["s1"], view.tenant_id,
                               view.report_month) = {}
                 => view.result[2] = 0)

\* C3 witness: a report month not after the lease start, with a payment of
\* the tenant dated before the report month.
C3_Witness ==
    /\ BalanceShown
    /\ MonthIndex(view.report_month)
         <= MonthIndex(strptime(ViewTenant.start_date))
    /\ PositionsBefore(payments["s1"], view.tenant_id, view.report_month) # {}
    /\ view.result[2] < 0

-----------------------------------------------------------------------------
(* Claims about show_dashboard                                             *)

\* days are numbered year * 10000 + month * 100 + day
DayIndex(d) == d.year * 10000 + d.month * 100 + d.day

\* the positions of the entries of `list` dated within [view.start_date,
\* view.end_date]
PositionsInRange(list) ==
    { i \in 1..Len(list) :
        /\ DayIndex(view.start_date) <= DayIndex(strptime(list[i].date))
        /\ DayIndex(strptime(list[i].date)) <= DayIndex(view.end_date) }

\* those of them dated in the calendar month numbered mi
PositionsInRangeOfMonth(list, mi) ==
    { i \in PositionsInRange(list) : MonthIndex(strptime(list[i].date)) = mi }

\* the calendar months with at least one in-range payment or expense
ActiveMonths ==
    { MonthIndex(strptime(payments["s1"][i].date)) :
        i \in PositionsInRange(payments["s1"]) }
    \cup { MonthIndex(strptime(expenses["s1"][i].date)) :
             i \in PositionsInRange(expenses["s1"]) }

LabelIndex(label) == label[1] * 12 + label[2]

RECURSIVE SumField(_, _)
SumField(rows, f) ==
    IF rows = <<>> THEN 0 ELSE Head(rows)[f] + SumField(Tail(rows), f)

\* C4: the monthly summary has exactly one row for each calendar month with
\* an in-range payment or expense and no other row; a row's Income and
\* Expenses are the sums of the in-range payments and expenses of its month
\* (0 when that side has none), Net Income is their difference, and the rows
\* are in chronological order, whatever the order of the input lists.
C4_MonthlySummary ==
    view.kind = "dashboard" =>
        LET rows == view.monthly_summary
        IN /\ { LabelIndex(rows[i].Month) : i \in 1..Len(rows) } = ActiveMonths
           /\ Len(rows) = Cardinality(ActiveMonths)
           /\ \A i \in 1..Len(rows) :
                /\ rows[i].Income =
                     SumAt(PositionsInRangeOfMonth(payments["s1"],
                               LabelIndex(rows[i].Month)), payments["s1"])
                /\ rows[i].Expenses =
                     SumAt(PositionsInRangeOfMonth(expenses["s1"],
                               LabelIndex(rows[i].Month)), expenses["s1"])
                /\ rows[i].Net_Income = rows[i].Income - rows[i].Expenses
           /\ \A i, j \in 1..Len(rows) :
                i < j => LabelIndex(rows[i].Month) < LabelIndex(rows[j].Month)

\* C4 witness: a summary whose first row is a month with expenses only and
\* which has a later row with income only, while a payment lies outside the
\* range.
C4_Witness ==
    /\ view.kind = "dashboard"
    /\ Len(view.monthly_summary) >= 2
    /\ view.monthly_summary[1].Income = 0
    /\ view.monthly_summary[1].Expenses > 0
    /\ \E i \in 2..Len(view.monthly_summary) :
          /\ view.monthly_summary[i].Income > 0
          /\ view.monthly_summary[i].Expenses = 0
    /\ PositionsInRange(payments["s1"]) # 1..Len(payments["s1"])

\* C5: totalIncome and totalExpenses are the sums of the payments and of the
\* expenses dated within the range, netIncome is their difference, each
\* equals the sum of its column over the monthly rows, and when nothing falls
\* in the range the month sequence is empty and the three totals are zero.
C5_Totals ==
    view.kind = "dashboard" =>
        /\ view.total_income =
             SumAt(PositionsInRange(payments["s1"]), payments["s1"])
        /\ view.total_expenses =
             SumAt(PositionsInRange(expenses["s1"]), expenses["s1"])
        /\ view.net_income = view.total_income - view.total_expenses
        /\ view.total_income = SumField(view.monthly_summary, "Income")
        /\ view.total_expenses = SumField(view.monthly_summary, "Expenses")
        /\ view.net_income = SumField(view.monthly_summary, "Net_Income")
        /\ (PositionsInRange(payments["s1"]) = {}
              /\ PositionsInRange(expenses["s1"]) = {}
            => /\ view.monthly_summary = <<>>
               /\ view.total_income = 0
               /\ view.total_expenses = 0
               /\ view.net_income = 0)

\* C5 witness: totals over several months with income and expenses, while a
\* payment and an expense lie outside the range.
C5_Witness ==
    /\ view.kind = "dashboard"
    /\ Len(view.monthly_summary) >= 2
    /\ view.total_income > 0
    /\ view.total_expenses > 0
    /\ PositionsInRange(payments["s1"]) # 1..Len(payments["s1"])
    /\ PositionsInRange(expenses["s1"]) # 1..Len(expenses["s1"])

\* C5 witness of the empty case: payments and expenses exist, none falls in
\* the range, and the dashboard shows no month and zero totals.
C5_WitnessEmpty ==
    /\ view.kind = "dashboard"
    /\ payments["s1"] # <<>> /\ expenses["s1"] # <<>>
    /\ PositionsInRange(payments["s1"]) = {}
    /\ PositionsInRange(expenses["s1"]) = {}
    /\ view.monthly_summary = <<>>

-----------------------------------------------------------------------------
(* Claims about the forms, the store and the session cache                 *)

session_state == <<authenticated, data_loaded, tenants, payments, expenses,
                   edit_tenant_id>>

WellFormedTenant(t) == t.rent > 0 /\ t.name # "" /\ t.property # ""

\* C6 as stated: malformed form input is rejected by every form, so that
\* after any sequence of submissions every tenant in the cache and in the
\* store has rent > 0 and a non-empty name and property.
C6_OnlyWellFormedTenants ==
    /\ \A t \in db_tenants : WellFormedTenant(t)
    /\ \A s \in Sessions : \A i \in 1..Len(tenants[s]) :
          WellFormedTenant(tenants[s][i])

\* C7: when a store call fails during a write operation (add tenant, edit
\* tenant, delete tenant, record payment, add expense, batch delete of
\* expenses), the session's tenants, payments and expenses lists are what
\* they were before the operation, and so is the rest of the session state:
\* the form is still on screen and can be submitted again.
C7_FailedWriteLeavesCache ==
    [][ last'.outcome = "exception"
          => /\ last'.op \in {"add_tenant", "save_changes", "delete_tenant",
                              "record_payment", "add_expense",
                              "delete_expenses"}
             /\ cache' = cache
             /\ session_state' = session_state ]_vars

\* C7 witness: a tenant delete has failed after the store deleted the tenant
\* document; the cache still lists the tenant.
C7_Witness ==
    /\ last.op = "delete_tenant"
    /\ last.outcome = "exception"
    /\ \E i \in 1..Len(tenants["s1"]) :
          \A d \in db_tenants : d.id # tenants["s1"][i].id

ReferencesHold(pays, tens) ==
    \A p \in pays : \E t \in tens : t.id = p.tenant_id

\* every payment of the store and of each loaded cache references a tenant
\* that exists there
C8_ReferencesHold ==
    /\ ReferencesHold(db_payments, db_tenants)
    /\ \A s \in Sessions :
          ReferencesHold(Range(payments[s]), Range(tenants[s]))

\* a completed tenant delete removes one tenant and exactly its payments,
\* from the store and from the cache
C8_DeleteStep ==
    (last'.op = "delete_tenant" /\ last'.outcome = "ok") =>
        \E id \in Ids(tenants[last'.session]) :
            LET s == last'.session
            IN /\ id \notin Ids(tenants'[s])
               /\ Ids(tenants'[s]) = Ids(tenants[s]) \ {id}
               /\ db_tenants' = {d \in db_tenants : d.id # id}
               /\ db_payments' = {p \in db_payments : p.tenant_id # id}
               /\ Range(payments'[s]) =
                     {p \in Range(payments[s]) : p.tenant_id # id}

\* C8: from a store in which every payment references an existing tenant,
\* after any sequence of completed add-tenant, edit-tenant, record-payment
\* and delete-tenant operations of one session, every payment of the store
\* and of the cache references a tenant that exists there; a tenant delete
\* removes the tenant and all of its payments from both and no payment of
\* another tenant.
C8_NoOrphansWithoutFailure ==
    []C8_ReferencesHold /\ [][C8_DeleteStep]_vars

\* C8 witness: a tenant with a payment has been deleted, and another
\* tenant's payment is still in the store and in the cache.
C8_Witness ==
    /\ last.op = "delete_tenant" /\ last.outcome = "ok"
    /\ db_payments # {}
    /\ payments["s1"] # <<>>
    /\ Cardinality(db_payments) < next_id.payments - 1

\* C9: the store is read or written and the cached records change only in a
\* session whose authenticated flag is true; the flag becomes true only by a
\* login submission with the configured username and password; a
\* mismatching submission changes no session state; Logout clears the flag,
\* so that no data operation is possible until a matching login.
C9_OnlyWhenAuthenticated ==
    [][ /\ \A s \in Sessions :
              ( \/ tenants'[s] # tenants[s]
                \/ payments'[s] # payments[s]
                \/ expenses'[s] # expenses[s]
                \/ store_reads'[s] # store_reads[s]
                \/ data_loaded'[s] # data_loaded[s] )
              => authenticated[s] /\ authenticated'[s]
        /\ store' # store => authenticated[last'.session]
        /\ \A s \in Sessions :
              (~authenticated[s] /\ authenticated'[s])
              => last' = Last(s, "login", "ok", <<admin_user, admin_pass>>)
        /\ (last'.op = "login" /\ last'.input # <<admin_user, admin_pass>>)
              => /\ last'.outcome = "rejected"
                 /\ session_state' = session_state
                 /\ store' = store
        /\ last'.op = "logout" => ~authenticated'[last'.session]
      ]_vars

\* C9 witness: after a logout, with data in the cache, a login with a wrong
\* password has been rejected and the session is not authenticated.
C9_Witness ==
    /\ last.op = "login" /\ last.outcome = "rejected"
    /\ last.input = <<admin_user, "wrong">>
    /\ data_loaded["s1"] /\ tenants["s1"] # <<>>
    /\ ~authenticated["s1"]

-----------------------------------------------------------------------------
(* Claims about orphaned payments                                          *)

\* a payment whose tenant_id matches no tenant of the session cache
IsOrphan(p) ==
    \A i \in 1..Len(tenants["s1"]) : tenants["s1"][i].id # p.tenant_id

\* the positions of the cached payments of tenant id dated in month M
CachedPositionsIn(id, M) == PositionsIn(payments["s1"], id, M)

NotOrphaned(list) == LET Keep(p) == ~IsOrphan(p) IN SelectSeq(list, Keep)

\* C10: an orphaned payment is in no line of the monthly report and in no
\* line's Total Paid: every line is an existing tenant's, lists exactly that
\* tenant's payments of the month and totals them; and a tenant's balance
\* summary and payment history are what they are without the orphaned
\* payments.
C10_OrphansExcluded ==
    /\ view.kind = "report" =>
         \A k \in 1..Len(view.rows) :
            LET r == view.rows[k]
            IN /\ \A i \in 1..Len(r.payments) : ~IsOrphan(r.payments[i])
               /\ \E j \in 1..Len(tenants["s1"]) :
                     LET t == tenants["s1"][j]
                         own == CachedPositionsIn(t.id, view.report_month)
                     IN /\ r.name = t.name /\ r.property = t.property
                        /\ Range(r.payments) =
                              {payments["s1"][i] : i \in own}
                        /\ Len(r.payments) = Cardinality(own)
                        /\ r.total_paid = SumAt(own, payments["s1"])
    /\ (view.kind = "balance" /\ "history" \in DOMAIN view) =>
         /\ \A i \in 1..Len(view.history) :
               /\ ~IsOrphan(view.history[i])
               /\ view.history[i].tenant_id = view.tenant_id
         /\ view.result[2] = ExpectedForwarded
         /\ view.result[4] = ExpectedPaidThisMonth
         /\ view.result =
               calculate_balance(tenants["s1"], NotOrphaned(payments["s1"]),
                                 view.tenant_id, view.report_month)

\* C10 witness: the report of a month with an orphaned payment and a payment
\* of an existing tenant: the tenant's line is shown, and the orphaned
\* payment is part of the month's total but of no line.
C10_Witness ==
    /\ view.kind = "report"
    /\ Len(view.rows) = 1
    /\ \E i \in 1..Len(payments["s1"]) :
          /\ IsOrphan(payments["s1"][i])
          /\ MonthIndex(strptime(payments["s1"][i].date))
               = MonthIndex(view.report_month)
    /\ view.total_collected > view.rows[1].total_paid

-----------------------------------------------------------------------------
(* Claims about a tenant id that is not in the cache                       *)

\* the view is the result of calculate_balance for an id no cached tenant has
MissingTenantShown ==
    /\ view.kind = "balance"
    /\ \A i \in 1..Len(tenants["s1"]) : tenants["s1"][i].id # view.tenant_id

C11_AllZero == MissingTenantShown => view.result = <<0, 0, 0, 0, 0>>

C11_NoStateChange ==
    view' # view =>
        /\ store' = store /\ cache' = cache
        /\ session_state' = session_state
        /\ store_reads' = store_reads

\* C11: for a tenant id that no tenant of the session cache has,
\* calculate_balance returns 0 for all five outputs, whatever payments the
\* cache holds, and the call changes neither the store nor the session state.
C11_MissingTenantAllZero == []C11_AllZero /\ [][C11_NoStateChange]_vars

\* C11 witness: the all-zero result for an id no cached tenant has, while the
\* cache holds a tenant and payments carrying that id, one of them dated in
\* the report month and one before it.
C11_Witness ==
    /\ MissingTenantShown
    /\ view.result = <<0, 0, 0, 0, 0>>
    /\ tenants["s1"] # <<>>
    /\ \E i, j \in 1..Len(payments["s1"]) :
          /\ payments["s1"][i].tenant_id = view.tenant_id
          /\ payments["s1"][j].tenant_id = view.tenant_id
          /\ MonthIndex(strptime(payments["s1"][i].date))
               = MonthIndex(view.report_month)
          /\ MonthIndex(strptime(payments["s1"][j].date))
               < MonthIndex(view.report_month)

-----------------------------------------------------------------------------
(* Claims about two sessions                                               *)

TenantFields == {"name", "property", "rent", "start_date", "deposit"}

\* the record with that id of a set or a list of documents
DocOf(docs, id) == CHOOSE d \in docs : d.id = id

OtherSession(s) == IF s = "s1" THEN "s2" ELSE "s1"

\* a save: it succeeds, the stored tenant then carries the five fields the
\* saving session now caches, and the other session's cache is as before
C12_SaveStep ==
    last'.op = "save_changes" =>
        LET s == last'.session
            id == edit_tenant_id[s]
        IN /\ last'.outcome = "ok"
           /\ \A f \in TenantFields :
                 DocOf(db_tenants', id)[f] = DocOf(Range(tenants'[s]), id)[f]
           /\ Cardinality({d \in db_tenants' : d.id = id}) = 1
           /\ \A d \in db_tenants' : d.id # id => d \in db_tenants
           /\ tenants'[OtherSession(s)] = tenants[OtherSession(s)]

\* C12: when two sessions that both cache a tenant save edits of it, each
\* save succeeds with no conflict detected; after a save the store holds all
\* five fields of that save, whatever the other session had saved, and the
\* other session keeps the values it cached.
C12_LastWriteWins == [][C12_SaveStep]_vars

\* C12 witness: both sessions have saved tenant 1 with forms that differ in
\* every field, the second session last: the store holds the second
\* session's five values, none of the first session's, and the first
\* session still caches its own.
C12_Witness ==
    /\ last.op = "save_changes" /\ last.outcome = "ok" /\ last.session = "s2"
    /\ DocOf(Range(tenants["s1"]), 1) \notin SeedTenants
    /\ DocOf(Range(tenants["s2"]), 1) \notin SeedTenants
    /\ DocOf(db_tenants, 1) = DocOf(Range(tenants["s2"]), 1)
    /\ \A f \in TenantFields :
          DocOf(db_tenants, 1)[f] # DocOf(Range(tenants["s1"]), 1)[f]

-----------------------------------------------------------------------------
(* Claims about the session cache and the store                            *)

\* a cached list holds exactly the documents of a collection, each once
SameRecords(list, docs) ==
    Range(list) = docs /\ Len(list) = Cardinality(docs)

CacheIsStore ==
    /\ SameRecords(tenants["s1"], db_tenants)
    /\ SameRecords(payments["s1"], db_payments)
    /\ SameRecords(expenses["s1"], db_expenses)

\* C13: with one session and no failing store call the store is read once,
\* on the first authenticated run and not again (not after a logout and a
\* new login either), and from that load on, after every add, edit and
\* delete, the cached tenants, payments and expenses are exactly the
\* documents of the store's three collections.
C13_ReadOnceCacheIsStore ==
    /\ store_reads["s1"] = (IF data_loaded["s1"] THEN 1 ELSE 0)
    /\ data_loaded["s1"] => CacheIsStore

\* C13 witness: a session that has loaded, written to a store that held
\* documents, logged out and logged in again: the store was read once and
\* the cache holds what the store holds.
C13_Witness ==
    /\ last.op = "login" /\ last.outcome = "ok"
    /\ data_loaded["s1"] /\ store_reads["s1"] = 1
    /\ db_tenants # {} /\ db_tenants # SeedTenants
    /\ db_payments # {}
    /\ CacheIsStore

-----------------------------------------------------------------------------
(* Claims about a tenant delete that fails half way                        *)

\* the session caches a tenant the store no longer holds
GhostTenant ==
    \E i \in 1..Len(tenants["s1"]) :
        \A d \in db_tenants : d.id # tenants["s1"][i].id

\* a tenant delete that raised after the tenant document was deleted: the
\* tenant's payments that were not deleted yet stay in the store, nothing
\* comes back, and the cache is as before, tenant and payments included
C14_FailStep ==
    (/\ last'.op = "delete_tenant" /\ last'.outcome = "exception"
     /\ db_tenants' # db_tenants) =>
        LET s == last'.session
            gone == db_tenants \ db_tenants'
            id == (CHOOSE d \in gone : TRUE).id
        IN /\ Cardinality(gone) = 1
           /\ db_tenants' \subseteq db_tenants
           /\ db_payments' \subseteq db_payments
           /\ (\E p \in db_payments : p.tenant_id = id)
                 => \E p \in db_payments' : p.tenant_id = id
           /\ tenants'[s] = tenants[s] /\ payments'[s] = payments[s]
           /\ id \in Ids(tenants'[s])
           /\ \A p \in db_payments : p.tenant_id = id
                 => p \in Range(payments'[s])
           /\ ~SameRecords(tenants'[s], db_tenants')

\* C14 as stated: after such a failure the cache and the store disagree for
\* the rest of the run.
C14_Original ==
    [][C14_FailStep]_vars /\ [][GhostTenant => GhostTenant']_vars

\* C14: a tenant delete whose cascade fails after the tenant document was
\* deleted leaves the store without the tenant and with the payments that
\* were not deleted yet, restores and retries nothing, and leaves the cache
\* with the tenant and all its payments; cache and store then disagree until
\* a later delete of that tenant runs to its end.
C14_PartialDelete ==
    /\ [][C14_FailStep]_vars
    /\ [][(GhostTenant /\ ~GhostTenant')
             => (last'.op = "delete_tenant" /\ last'.outcome = "ok")]_vars

\* C14 witness: the delete of a tenant with two payments has failed at the
\* second payment: the store lacks the tenant and the first payment and
\* still holds the second, the cache holds the tenant and both payments.
C14_Witness ==
    /\ last.op = "delete_tenant" /\ last.outcome = "exception"
    /\ \E i \in 1..Len(tenants["s1"]) :
          LET id == tenants["s1"][i].id
              stored == {p \in db_payments : p.tenant_id = id}
              cached == {p \in Range(payments["s1"]) : p.tenant_id = id}
          IN /\ \A d \in db_tenants : d.id # id
             /\ stored # {} /\ stored \subseteq cached /\ stored # cached

====
